---- MODULE Spec2Model ----
(***************************************************************************)
(* The repair agent workflows of workflows.py as a state machine.          *)
(*                                                                         *)
(* One workflow instance is modelled: RepairAgentWorkflow (variant "base") *)
(* or RepairAgentWorkflowProactive (variant "proactive").  A step of the   *)
(* workflow is what run() executes between two awaits: Temporal runs the   *)
(* coroutine until it blocks on an activity or on wait_condition, and      *)
(* handles signals only while it is blocked (or before run() starts).      *)
(* Confidence scores are in hundredths: 0.5 is 50, 0.95 is 95.             *)
(***************************************************************************)
EXTENDS Integers, Sequences, FiniteSets, TLC

----------------------------------------------------------------------------
(* Program constants *)

ITERATIONS_BEFORE_CONTINUE_AS_NEW == 10

\* workflows.py:42, 325 and activities.py:457: "< 0.5"
LOW_CONFIDENCE == 50

\* workflows.py:338: "<= 0.95"
APPROVAL_CONFIDENCE == 95

----------------------------------------------------------------------------
(* Python dicts are functions from keys to values *)

EmptyDict == << >>

\* d.get(k, default)
Get(d, k, default) == IF k \in DOMAIN d THEN d[k] ELSE default

\* d[k] = v
Put(d, k, v) == [x \in (DOMAIN d) \cup {k} |-> IF x = k THEN v ELSE d[x]]

\* list(d.keys()) as a set
Keys(d) == DOMAIN d

Last(s) == s[Len(s)]

\* f"{score}" of a float score
ScoreText(s) ==
    IF s = 0 THEN "0.0"
    ELSE IF s = 100 THEN "1.0"
    ELSE IF s % 10 = 0 THEN "0." \o ToString(s \div 10)
    ELSE IF s < 10 THEN "0.0" \o ToString(s)
    ELSE "0." \o ToString(s)

----------------------------------------------------------------------------
(* What the environment supplies: the start payload, the results the       *)
(* activities return, and the identities the signals carry.                *)

StartPayloads ==
    { [prompt |-> "Analyze and repair the orders in the order system.",
       metadata |-> [user |-> "alice", system |-> "temporal-repair-agent"]] }

\* detect_some_stuff returns the parsed response only when it holds a
\* confidence_score (activities.py:144-151)
LLMDetectResponses ==
    { [confidence_score |-> 49], [confidence_score |-> 50],
      [additional_notes |-> "no score"] }

DetectValid(resp) == "confidence_score" \in DOMAIN resp

DetectResults == { r \in LLMDetectResponses : DetectValid(r) }

AnalysisResults ==
    { [issues |-> << [order_id |-> "ORD-1", issue |-> "stuck", confidence_score |-> 80] >>,
       confidence_score |-> 80] }

\* proposed_tools: order id -> list of tools, in the dict's order
ProposedTools ==
    << << "ORD-1",
          << [tool_name |-> "request_approval_tool",
              tool_arguments |-> [order_id |-> "ORD-1"],
              confidence_score |-> 90],
             [tool_name |-> "order_inventory_tool",
              tool_arguments |-> [order_id |-> "ORD-1"],
              confidence_score |-> 49] >> >> >>

PlanResults ==
    { [proposed_tools |-> ProposedTools, overall_confidence_score |-> 95],
      [proposed_tools |-> ProposedTools, overall_confidence_score |-> 96],
      [proposed_tools |-> ProposedTools] }

\* plan_to_repair_some_stuff checks every proposed tool of the parsed response
\* (activities.py:366-383): these are tools it refuses
InvalidTools ==
    { [tool_arguments |-> [order_id |-> "ORD-1"], confidence_score |-> 90],
      [tool_name |-> "", tool_arguments |-> [order_id |-> "ORD-1"]],
      [tool_name |-> "request_approval_tool", confidence_score |-> 90],
      [tool_name |-> "request_approval_tool", tool_arguments |-> EmptyDict] }

LLMPlanResponses ==
    PlanResults
    \cup { [proposed_tools |-> << << "ORD-1", << ProposedTools[1][2][1], t >> >> >>,
            overall_confidence_score |-> 96] : t \in InvalidTools }

\* "if not tool_name or tool_name == "Unknown Tool Name" or not tool_arguments: raise"
ToolValid(tool) ==
    LET tool_name == Get(tool, "tool_name", "Unknown Tool Name")
        tool_arguments == Get(tool, "tool_arguments", EmptyDict)
    IN  ~(tool_name = "" \/ tool_name = "Unknown Tool Name" \/ DOMAIN tool_arguments = {})

\* the validation loop over proposed_tools
PlanValid(resp) ==
    LET proposed == Get(resp, "proposed_tools", << >>)
    IN  \A o \in DOMAIN proposed :
            \A i \in DOMAIN proposed[o][2] : ToolValid(proposed[o][2][i])

ReportResults ==
    { [report_summary |-> "orders repaired", repairs_sufficient_confidence_score |-> 90] }

\* the argument of ApproveRepair / RejectRepair
Identities == { "", "bob" }

\* what notify_interested_parties returns when the context holds no
\* notification_info (the start payload carries no callback)
NotifyResult == [notification_status |-> "Improper notification info provided."]

----------------------------------------------------------------------------
(* The execute_repairs activity (activities.py, repair_some_stuff) *)

RECURSIVE FlattenTools(_)
FlattenTools(orders) ==
    IF orders = << >> THEN << >>
    ELSE [i \in 1..Len(orders[1][2]) |->
              [order_id |-> orders[1][1], tool |-> orders[1][2][i]]]
         \o FlattenTools(Tail(orders))

\* faulty variant, for comparison: a tool with a score of exactly 0.5 is skipped too
ToolSkipped_Inclusive(tool) == Get(tool, "confidence_score", 0) <= LOW_CONFIDENCE

\* "if confidence_score < 0.5: ... problems_skipped += 1; continue"
ToolSkipped(tool) == Get(tool, "confidence_score", 0) < LOW_CONFIDENCE

RECURSIVE RepairLoop(_, _)
RepairLoop(tools, results) ==
    IF tools = << >> THEN results
    ELSE LET t == tools[1].tool
         IN  IF ToolSkipped(t)
             THEN RepairLoop(Tail(tools),
                             [results EXCEPT !.problems_skipped = @ + 1])
             ELSE RepairLoop(Tail(tools),
                             [results EXCEPT
                                !.problems_repaired = @ + 1,
                                !.repair_tool_details =
                                    Append(@, [order_id |-> tools[1].order_id,
                                               tool_name |-> Get(t, "tool_name", "Unknown Tool Name"),
                                               confidence_score |-> Get(t, "confidence_score", 0)])])

repair_some_stuff(input) ==
    LET proposed == Get(Get(input, "planning_result", EmptyDict), "proposed_tools", << >>)
    IN  IF proposed = << >>
        THEN [repair_summary |-> "No proposed tools found for repair."]
        ELSE RepairLoop(FlattenTools(proposed),
                        [repair_tool_details |-> << >>,
                         problems_repaired |-> 0,
                         problems_skipped |-> 0,
                         repair_summary |-> "Repair completed successfully"])

----------------------------------------------------------------------------
(* Plans of every shape up to MaxOrders orders of up to MaxTools tools each,   *)
(* for the properties of the execute_repairs activity.                        *)

MaxOrders == 2

MaxTools == 1

\* a planned tool, with one of these scores or with none
ToolScores == {49, 50}

PlannedTools ==
    { [tool_name |-> "request_approval_tool",
       tool_arguments |-> [order_id |-> "ORD"],
       confidence_score |-> sc] : sc \in ToolScores }
    \cup { [tool_name |-> "request_approval_tool",
            tool_arguments |-> [order_id |-> "ORD"]] }

ToolLists == UNION { [1..n -> PlannedTools] : n \in 0..MaxTools }

OrderId(i) == "ORD-" \o ToString(i)

RepairPlans ==
    { [proposed_tools |-> [i \in 1..Len(lists) |-> << OrderId(i), lists[i] >>],
       overall_confidence_score |-> 90] :
         lists \in UNION { [1..n -> ToolLists] : n \in 0..MaxOrders } }

----------------------------------------------------------------------------
(* State *)

VARIABLES
    variant,        \* "base": RepairAgentWorkflow, "proactive": RepairAgentWorkflowProactive
    inputs,         \* the start payload of the run
    approved, rejected, planned, status, context,
    problems_found_confidence_score,    \* << >> while the attribute does not exist, else <<score>>
    planning_confidence_score,          \* likewise
    exit_requested, continue_as_new_requested, iteration_count, stop_waiting,
    pc,             \* where run() is suspended
    running,        \* the activities of this instance that are scheduled and have not returned
    outcome,        \* "running", "completed", "failed" or "continued-as-new"
    result,         \* what the run returned, or the error it failed with
    attempts,       \* failed attempts of the activity run() is waiting for
    trace,          \* status labels set since the run began (base) or by the step that
                    \* began the current iteration and since (proactive)
    calls,          \* activities invoked since the run or the iteration began
    delivered,      \* signals handled since the run or the iteration began (the first
                    \* iteration takes in the signals handled before run() started)
    waited,         \* run() has suspended in the approval wait since then
    continued,      \* this run was started by continue_as_new
    returned,       \* activity -> the result it last returned to this run
    applied,        \* positions in the flattened plan of the tools that the attempts of the
                    \* latest execute_repairs invocation have applied to the record store
    written         \* context key -> the value this run last stored under it

wfvars  == <<approved, rejected, planned, status, context,
             problems_found_confidence_score, planning_confidence_score>>
provars == <<exit_requested, continue_as_new_requested, iteration_count, stop_waiting>>
ctlvars == <<pc, running, outcome, result, attempts>>
histvars == <<trace, calls, delivered, waited, continued, returned, applied, written>>
vars == <<variant, inputs, wfvars, provars, ctlvars, histvars>>

Variants == {"base", "proactive"}

\* failed attempts of one activity invocation that are followed
MaxAttempts == 1

\* RepairAgentWorkflow.__init__ and RepairAgentWorkflowProactive.__init__
NewInstance ==
    /\ approved = FALSE
    /\ rejected = FALSE
    /\ planned = FALSE
    /\ status = "INITIALIZING"
    /\ context = EmptyDict
    /\ problems_found_confidence_score = << >>
    /\ planning_confidence_score = << >>
    /\ exit_requested = FALSE
    /\ continue_as_new_requested = FALSE
    /\ iteration_count = 0
    /\ stop_waiting = FALSE
    /\ pc = "start"
    /\ running = {}
    /\ outcome = "running"
    /\ result = ""
    /\ attempts = 0
    /\ trace = << >>
    /\ calls = << >>
    /\ delivered = {}
    /\ waited = FALSE
    /\ continued = FALSE
    /\ applied = << >>
    /\ returned = EmptyDict
    /\ written = EmptyDict

Init ==
    /\ variant \in Variants
    /\ inputs \in StartPayloads
    /\ NewInstance

InitProactive ==
    /\ variant = "proactive"
    /\ inputs \in StartPayloads
    /\ NewInstance

InitBase ==
    /\ variant = "base"
    /\ inputs \in StartPayloads
    /\ NewInstance

----------------------------------------------------------------------------
(* The conditions run() branches and waits on *)

Activities == {"detect", "analyze", "plan_repair", "notify", "execute_repairs", "report"}

\* faulty variant, for comparison: the gate also stops a score of exactly 0.5
NoRepairNeeded_Inclusive(score) == score <= LOW_CONFIDENCE

\* "if self.problems_found_confidence_score < 0.5"
NoRepairNeeded(score) == score < LOW_CONFIDENCE

\* faulty variant, for comparison: the approval wait does not wait
ApprovalWaitCondition_Always == TRUE

\* "lambda: self.approved is not False or self.rejected is not False"
ApprovalWaitCondition == approved # FALSE \/ rejected # FALSE

\* faulty variant, for comparison: the rejection check is missing
RejectedBranch_Never == FALSE

\* faulty variant, for comparison: approval takes precedence over rejection
RejectedBranch_ApprovalFirst == rejected /\ ~approved

\* "if self.rejected:" after the approval wait
RejectedBranch == rejected

\* faulty variant, for comparison: the confidence bypass is never taken
NeedsApproval_Always(score) == TRUE

\* faulty variant, for comparison: a score of exactly 0.95 bypasses the approval
NeedsApproval_Strict(score) == score < APPROVAL_CONFIDENCE

\* "if self.planning_confidence_score <= 0.95"
NeedsApproval(score) == score <= APPROVAL_CONFIDENCE

\* faulty variant, for comparison: the cap is tested with <=
LoopCondition_OffByOne ==
    /\ ~exit_requested
    /\ ~continue_as_new_requested
    /\ iteration_count <= ITERATIONS_BEFORE_CONTINUE_AS_NEW

\* faulty variant, for comparison: a continuation request outlasts an exit request
LoopCondition_ExitOverridden ==
    /\ ~exit_requested \/ continue_as_new_requested
    /\ iteration_count < ITERATIONS_BEFORE_CONTINUE_AS_NEW

\* "while not self.exit_requested and not self.continue_as_new_requested and
\*  self.iteration_count < ITERATIONS_BEFORE_CONTINUE_AS_NEW"
LoopCondition ==
    /\ ~exit_requested
    /\ ~continue_as_new_requested
    /\ iteration_count < ITERATIONS_BEFORE_CONTINUE_AS_NEW

\* the lambda of the inter-cycle wait
CycleWaitCondition ==
    exit_requested = TRUE \/ continue_as_new_requested = TRUE \/ stop_waiting = TRUE

\* the context key under which run() stores the result of an activity
ResultKey(act) ==
    CASE act = "detect" -> "detection_result"
      [] act = "analyze" -> "analysis_result"
      [] act = "plan_repair" -> "planning_result"
      [] act = "execute_repairs" -> "repair_result"
      [] act = "report" -> "report_result"
      [] OTHER -> "none"

\* "Agentically Approved with confidence score {...get('overall_confidence_score', 0.0)}"
AgenticApprover(planning_result) ==
    "Agentically Approved with confidence score "
        \o ScoreText(Get(planning_result, "overall_confidence_score", 0))

\* the approver ApproveRepair records
ApproverRecorded(approver) ==
    IF approver = ""
    THEN Get(Get(context, "metadata", EmptyDict), "user", "unknown")
    ELSE approver

----------------------------------------------------------------------------
(* Pieces of a step *)

\* set_workflow_status, once for each label in turn
SetStatus(labels) ==
    /\ status' = IF labels = << >> THEN status ELSE Last(labels)
    /\ trace' = trace \o labels

\* faulty variant, for comparison: the activity is scheduled without the previous one having been awaited
Invoke_Overlapping(act, left) ==
    /\ running' = running \cup {act}
    /\ calls' = Append(calls, act)
    /\ pc' = act
    /\ attempts' = 0

\* workflow.execute_activity(act, ...): act is scheduled and run() waits for it
Invoke(act, left) ==
    /\ running' = left \cup {act}
    /\ calls' = Append(calls, act)
    /\ pc' = act
    /\ attempts' = 0

\* act has returned to run(), which is waiting for it
Returned(act) ==
    /\ outcome = "running"
    /\ pc = act
    /\ act \in running

\* run() returns
Return(text, left) ==
    /\ pc' = "done"
    /\ attempts' = 0
    /\ outcome' = "completed"
    /\ result' = text
    /\ running' = left
    /\ calls' = calls

\* an exception leaves run()
Fail(error, left) ==
    /\ pc' = "done"
    /\ attempts' = 0
    /\ outcome' = "failed"
    /\ result' = error
    /\ running' = left
    /\ calls' = calls

\* faulty variant, for comparison: the APPROVED status is not set
BaseApprovalBranch_NoApprovedLabel(labels, left) ==
    IF RejectedBranch
    THEN /\ SetStatus(labels \o <<"REJECTED">>)
         /\ Return("Repair REJECTED", left)
    ELSE /\ SetStatus(labels \o <<"PENDING-REPAIR">>)
         /\ Invoke("execute_repairs", left)
         /\ UNCHANGED <<outcome, result>>

\* lines 62-71 of RepairAgentWorkflow.run, after the approval wait
BaseApprovalBranch(labels, left) ==
    IF RejectedBranch
    THEN /\ SetStatus(labels \o <<"REJECTED">>)
         /\ Return("Repair REJECTED", left)
    ELSE /\ SetStatus(labels \o <<"APPROVED", "PENDING-REPAIR">>)
         /\ Invoke("execute_repairs", left)
         /\ UNCHANGED <<outcome, result>>

\* faulty variant, for comparison: the loop head does not clear approved
LoopHead_KeepsApproval(labels, left) ==
    /\ running' = left
    /\ IF LoopCondition
       THEN /\ iteration_count' = iteration_count + 1
            /\ approved' = approved
            /\ stop_waiting' = FALSE
            /\ status' = "WAITING-FOR-NEXT-CYCLE"
            /\ trace' = labels \o <<"WAITING-FOR-NEXT-CYCLE">>
            /\ calls' = << >>
            /\ delivered' = IF pc = "start" THEN delivered ELSE {}
            /\ waited' = FALSE
            /\ pc' = "wait_cycle"
            /\ attempts' = 0
            /\ UNCHANGED <<outcome, result>>
       ELSE /\ UNCHANGED <<iteration_count, approved, stop_waiting, calls, delivered, waited>>
            /\ SetStatus(labels)
            /\ pc' = "done"
            /\ attempts' = 0
            /\ IF exit_requested
               THEN outcome' = "completed" /\ result' = "Repair workflow exited as requested."
               ELSE outcome' = "continued-as-new" /\ result' = ""

\* the head of the while loop of RepairAgentWorkflowProactive.run, reached at the
\* start of run(), by "continue" and at the end of the loop body, and what
\* follows the loop when its condition is false
LoopHead(labels, left) ==
    /\ running' = left
    /\ IF LoopCondition
       THEN /\ iteration_count' = iteration_count + 1
            /\ approved' = FALSE
            /\ stop_waiting' = FALSE
            /\ status' = "WAITING-FOR-NEXT-CYCLE"
            /\ trace' = labels \o <<"WAITING-FOR-NEXT-CYCLE">>
            /\ calls' = << >>
            /\ delivered' = IF pc = "start" THEN delivered ELSE {}
            /\ waited' = FALSE
            /\ pc' = "wait_cycle"
            /\ attempts' = 0
            /\ UNCHANGED <<outcome, result>>
       ELSE /\ UNCHANGED <<iteration_count, approved, stop_waiting, calls, delivered, waited>>
            /\ SetStatus(labels)
            /\ pc' = "done"
            /\ attempts' = 0
            /\ IF exit_requested
               THEN outcome' = "completed" /\ result' = "Repair workflow exited as requested."
               ELSE outcome' = "continued-as-new" /\ result' = ""

\* lines 350-365 of RepairAgentWorkflowProactive.run, after the approval wait
ProactiveApprovalBranch(labels, left) ==
    IF RejectedBranch
    THEN LoopHead(labels \o <<"REJECTED">>, left)
    ELSE /\ SetStatus(labels \o <<"APPROVED", "PENDING-REPAIR">>)
         /\ Invoke("execute_repairs", left)
         /\ UNCHANGED <<iteration_count, approved, stop_waiting, outcome, result,
                        delivered, waited>>

----------------------------------------------------------------------------
(* RepairAgentWorkflow.run *)

\* run() up to the await of detect
BaseRunStart ==
    /\ variant = "base" /\ outcome = "running" /\ pc = "start"
    /\ context' = Put(Put(context, "prompt", Get(inputs, "prompt", EmptyDict)),
                      "metadata", Get(inputs, "metadata", EmptyDict))
    /\ SetStatus(<<"DETECTING-PROBLEMS">>)
    /\ Invoke("detect", running)
    /\ UNCHANGED <<variant, inputs, continued, applied, approved, rejected, planned,
                   problems_found_confidence_score, planning_confidence_score,
                   provars, outcome, result, delivered, waited>>
    /\ UNCHANGED returned
    /\ written' = ("prompt" :> Get(inputs, "prompt", EmptyDict)) @@ ("metadata" :> Get(inputs, "metadata", EmptyDict)) @@ written

\* detect returns r: the confidence gate, then analyze is invoked
BaseDetectReturns(r) ==
    /\ variant = "base" /\ Returned("detect")
    /\ context' = Put(context, "detection_result", r)
    /\ problems_found_confidence_score' = << Get(r, "confidence_score", 0) >>
    /\ IF NoRepairNeeded(Get(r, "confidence_score", 0))
       THEN /\ SetStatus(<<"NO-REPAIR-NEEDED">>)
            /\ Return("No repair needed", running \ {"detect"})
       ELSE /\ SetStatus(<<"ANALYZING-PROBLEMS">>)
            /\ Invoke("analyze", running \ {"detect"})
            /\ UNCHANGED <<outcome, result>>
    /\ UNCHANGED <<variant, inputs, continued, applied, approved, rejected, planned,
                   planning_confidence_score, provars, delivered, waited>>
    /\ returned' = Put(returned, "detect", r)
    /\ written' = ("detection_result" :> r) @@ written

\* analyze returns r (analyze_problems), then plan_repair is invoked (create_plan);
\* the same code in both workflows
AnalyzeReturns(r) ==
    /\ Returned("analyze")
    /\ context' = Put(Put(context, "analysis_result", r), "problems_to_repair", r)
    /\ SetStatus(<<"PLANNING-REPAIR">>)
    /\ Invoke("plan_repair", running \ {"analyze"})
    /\ UNCHANGED <<variant, inputs, continued, applied, approved, rejected, planned,
                   problems_found_confidence_score, planning_confidence_score,
                   provars, outcome, result, delivered, waited>>
    /\ returned' = Put(returned, "analyze", r)
    /\ written' = ("analysis_result" :> r) @@ ("problems_to_repair" :> r) @@ written

\* plan_repair returns r; run() reaches the approval wait, which resolves at once
\* when a gate is already set
BasePlanReturns(r) ==
    /\ variant = "base" /\ Returned("plan_repair")
    /\ context' = Put(context, "planning_result", r)
    /\ planned' = TRUE
    /\ planning_confidence_score' = << Get(r, "overall_confidence_score", 0) >>
    /\ IF ApprovalWaitCondition
       THEN /\ BaseApprovalBranch(<<"PENDING-APPROVAL">>, running \ {"plan_repair"})
            /\ waited' = waited
       ELSE /\ SetStatus(<<"PENDING-APPROVAL">>)
            /\ pc' = "await_approval"
            /\ attempts' = 0
            /\ waited' = TRUE
            /\ running' = running \ {"plan_repair"}
            /\ UNCHANGED <<calls, outcome, result>>
    /\ UNCHANGED <<variant, inputs, continued, applied, approved, rejected,
                   problems_found_confidence_score, provars, delivered>>
    /\ returned' = Put(returned, "plan_repair", r)
    /\ written' = ("planning_result" :> r) @@ written

\* the approval wait ends because its condition holds
BaseApprovalResolves ==
    /\ variant = "base" /\ outcome = "running" /\ pc = "await_approval"
    /\ ApprovalWaitCondition
    /\ BaseApprovalBranch(<< >>, running)
    /\ UNCHANGED <<variant, inputs, continued, applied, approved, rejected, planned, context,
                   problems_found_confidence_score, planning_confidence_score, provars,
                   delivered, waited>>
    /\ UNCHANGED returned
    /\ UNCHANGED written

\* faulty variant, for comparison: the elapsed wait returns and run() goes on with neither gate set
BaseApprovalTimeout_FallsThrough ==
    /\ variant = "base" /\ outcome = "running" /\ pc = "await_approval"
    /\ ~ApprovalWaitCondition
    /\ BaseApprovalBranch(<< >>, running)
    /\ UNCHANGED <<variant, inputs, continued, applied, approved, rejected, planned, context,
                   problems_found_confidence_score, planning_confidence_score, provars,
                   delivered, waited>>
    /\ UNCHANGED returned
    /\ UNCHANGED written

\* faulty variant, for comparison: the approval wait has no time bound
BaseApprovalTimeout_Unbounded ==
    /\ FALSE
    /\ UNCHANGED vars

\* the approval wait ends because its time bound elapsed: wait_condition raises
\* asyncio.TimeoutError, which run() does not catch
BaseApprovalTimeout ==
    /\ variant = "base" /\ outcome = "running" /\ pc = "await_approval"
    /\ ~ApprovalWaitCondition
    /\ Fail("TimeoutError", running)
    /\ UNCHANGED <<variant, inputs, continued, applied, wfvars, provars, trace, delivered, waited>>
    /\ UNCHANGED returned
    /\ UNCHANGED written

\* the tools of the plan in the context, in the order repair_some_stuff takes them
PlannedRepairs ==
    FlattenTools(Get(Get(context, "planning_result", EmptyDict), "proposed_tools", << >>))

\* the positions of the tools an attempt applies before it reaches position k:
\* all those before k that are not skipped
ExecutedBefore(k) ==
    SelectSeq([i \in 1..(k - 1) |-> i], LAMBDA i : ~ToolSkipped(PlannedRepairs[i].tool))

\* what earlier attempts of the invocation in flight have applied
PriorAttempts == IF attempts = 0 THEN << >> ELSE applied

\* an attempt of execute_repairs applies the tools before position k and the
\* tool at k raises: repair_some_stuff raises ApplicationError, which is
\* retryable, and the RetryPolicy of execute_repair sets no maximum_attempts,
\* so the activity is attempted again from its first tool
RepairAttemptFails(k) ==
    /\ Returned("execute_repairs")
    /\ k \in DOMAIN PlannedRepairs
    /\ ~ToolSkipped(PlannedRepairs[k].tool)
    /\ attempts < MaxAttempts
    /\ attempts' = attempts + 1
    /\ applied' = PriorAttempts \o ExecutedBefore(k)
    /\ UNCHANGED <<variant, inputs, continued, wfvars, provars, pc, running, outcome,
                   result, trace, calls, delivered, waited>>
    /\ UNCHANGED returned
    /\ UNCHANGED written

\* faulty variant, for comparison: a rejection set by then cancels the cycle after the repair
RepairReturns_HonoursRejection ==
    /\ Returned("execute_repairs")
    /\ applied' = PriorAttempts \o ExecutedBefore(Len(PlannedRepairs) + 1)
    /\ context' = Put(context, "repair_result", repair_some_stuff(context))
    /\ IF rejected
       THEN SetStatus(<<"REJECTED">>) /\ Return("Repair REJECTED", running \ {"execute_repairs"})
       ELSE /\ SetStatus(<<"PENDING-REPORT">>)
            /\ Invoke("report", running \ {"execute_repairs"})
            /\ UNCHANGED <<outcome, result>>
    /\ UNCHANGED <<variant, inputs, continued, approved, rejected, planned,
                   problems_found_confidence_score, planning_confidence_score,
                   provars, delivered, waited>>
    /\ returned' = Put(returned, "execute_repairs", repair_some_stuff(context))
    /\ written' = ("repair_result" :> repair_some_stuff(context)) @@ written

\* execute_repairs returns (execute_repair), then report is invoked
\* (generate_report); the same code in both workflows
RepairReturns ==
    /\ Returned("execute_repairs")
    /\ applied' = PriorAttempts \o ExecutedBefore(Len(PlannedRepairs) + 1)
    /\ context' = Put(context, "repair_result", repair_some_stuff(context))
    /\ SetStatus(<<"PENDING-REPORT">>)
    /\ Invoke("report", running \ {"execute_repairs"})
    /\ UNCHANGED <<variant, inputs, continued, approved, rejected, planned,
                   problems_found_confidence_score, planning_confidence_score,
                   provars, outcome, result, delivered, waited>>
    /\ returned' = Put(returned, "execute_repairs", repair_some_stuff(context))
    /\ written' = ("repair_result" :> repair_some_stuff(context)) @@ written

\* report returns r and run() returns
BaseReportReturns(r) ==
    /\ variant = "base" /\ Returned("report")
    /\ context' = Put(context, "report_result", r)
    /\ SetStatus(<<"REPORT-COMPLETED">>)
    /\ Return("Repair workflow completed", running \ {"report"})
    /\ UNCHANGED <<variant, inputs, continued, applied, approved, rejected, planned,
                   problems_found_confidence_score, planning_confidence_score, provars,
                   delivered, waited>>
    /\ returned' = Put(returned, "report", r)
    /\ written' = ("report_result" :> r) @@ written

\* an attempt of plan_repair receives resp, which the activity refuses with
\* "raise ApplicationError(...)": the error is retryable and the RetryPolicy of
\* create_plan sets no maximum_attempts, so the attempt is followed by another
\* and run() goes on waiting
PlanAttemptFails(resp) ==
    /\ Returned("plan_repair")
    /\ ~PlanValid(resp)
    /\ attempts < MaxAttempts
    /\ attempts' = attempts + 1
    /\ UNCHANGED <<variant, inputs, continued, applied, wfvars, provars, pc, running, outcome,
                   result, trace, calls, delivered, waited>>
    /\ UNCHANGED returned
    /\ UNCHANGED written

\* faulty variant, for comparison: the failure is recorded as the result of the phase
ActivityFails_WritesResult ==
    /\ outcome = "running"
    /\ pc \in Activities /\ pc \in running
    /\ Fail("ActivityError", running \ {pc})
    /\ context' = Put(context, ResultKey(pc), EmptyDict)
    /\ UNCHANGED <<variant, inputs, continued, applied, approved, rejected, planned, status,
                   problems_found_confidence_score, planning_confidence_score,
                   provars, trace, delivered, waited>>
    /\ UNCHANGED returned
    /\ UNCHANGED written

\* the activity run() waits for fails for good: execute_activity raises
\* ActivityError, which neither run() catches
ActivityFails ==
    /\ outcome = "running"
    /\ pc \in Activities /\ pc \in running
    /\ Fail("ActivityError", running \ {pc})
    /\ UNCHANGED <<variant, inputs, continued, applied, wfvars, provars, trace, delivered, waited>>
    /\ UNCHANGED returned
    /\ UNCHANGED written

----------------------------------------------------------------------------
(* Signals.  A handler runs while run() is suspended or has not started.   *)

\* faulty variant, for comparison: a second ApproveRepair withdraws the approval
ApproveRepair_Toggles(approver) ==
    /\ outcome = "running"
    /\ approved' = ~approved
    /\ context' = Put(context, "approved_by", ApproverRecorded(approver))
    /\ delivered' = delivered \cup {"ApproveRepair"}
    /\ UNCHANGED <<variant, inputs, continued, applied, rejected, planned, status,
                   problems_found_confidence_score, planning_confidence_score,
                   provars, ctlvars, trace, calls, waited>>
    /\ UNCHANGED returned
    /\ written' = ("approved_by" :> ApproverRecorded(approver)) @@ written

ApproveRepair(approver) ==
    /\ outcome = "running"
    /\ approved' = TRUE
    /\ context' = Put(context, "approved_by", ApproverRecorded(approver))
    /\ delivered' = delivered \cup {"ApproveRepair"}
    /\ UNCHANGED <<variant, inputs, continued, applied, rejected, planned, status,
                   problems_found_confidence_score, planning_confidence_score,
                   provars, ctlvars, trace, calls, waited>>
    /\ UNCHANGED returned
    /\ written' = ("approved_by" :> ApproverRecorded(approver)) @@ written

\* faulty variant, for comparison: the gate is edge-triggered, a rejection counts only while run() waits for it
RejectRepair_OnlyWhileWaiting(rejecter) ==
    /\ outcome = "running"
    /\ rejected' = (rejected \/ pc = "await_approval")
    /\ context' = Put(context, "rejected_by", rejecter)
    /\ delivered' = delivered \cup {"RejectRepair"}
    /\ UNCHANGED <<variant, inputs, continued, applied, approved, planned, status,
                   problems_found_confidence_score, planning_confidence_score,
                   provars, ctlvars, trace, calls, waited>>
    /\ UNCHANGED returned
    /\ written' = ("rejected_by" :> rejecter) @@ written

\* faulty variant, for comparison: a rejection removes the recorded approver
RejectRepair_ClearsApprover(rejecter) ==
    /\ outcome = "running"
    /\ rejected' = TRUE
    /\ context' = Put([k \in DOMAIN context \ {"approved_by"} |-> context[k]], "rejected_by", rejecter)
    /\ delivered' = delivered \cup {"RejectRepair"}
    /\ UNCHANGED <<variant, inputs, continued, applied, approved, planned, status,
                   problems_found_confidence_score, planning_confidence_score,
                   provars, ctlvars, trace, calls, waited>>
    /\ UNCHANGED returned
    /\ written' = ("rejected_by" :> rejecter) @@ written

\* faulty variant, for comparison: the handler itself sets the REJECTED status
RejectRepair_SetsStatus(rejecter) ==
    /\ outcome = "running"
    /\ rejected' = TRUE
    /\ context' = Put(context, "rejected_by", rejecter)
    /\ delivered' = delivered \cup {"RejectRepair"}
    /\ SetStatus(<<"REJECTED">>)
    /\ UNCHANGED <<variant, inputs, continued, applied, approved, planned,
                   problems_found_confidence_score, planning_confidence_score,
                   provars, ctlvars, calls, waited>>
    /\ UNCHANGED returned
    /\ written' = ("rejected_by" :> rejecter) @@ written

RejectRepair(rejecter) ==
    /\ outcome = "running"
    /\ rejected' = TRUE
    /\ context' = Put(context, "rejected_by", rejecter)
    /\ delivered' = delivered \cup {"RejectRepair"}
    /\ UNCHANGED <<variant, inputs, continued, applied, approved, planned, status,
                   problems_found_confidence_score, planning_confidence_score,
                   provars, ctlvars, trace, calls, waited>>
    /\ UNCHANGED returned
    /\ written' = ("rejected_by" :> rejecter) @@ written

RequestExit ==
    /\ variant = "proactive" /\ outcome = "running"
    /\ exit_requested' = TRUE
    /\ delivered' = delivered \cup {"RequestExit"}
    /\ UNCHANGED <<variant, inputs, continued, applied, wfvars, continue_as_new_requested,
                   iteration_count, stop_waiting, ctlvars, trace, calls, waited>>
    /\ UNCHANGED returned
    /\ UNCHANGED written

StopWaiting ==
    /\ variant = "proactive" /\ outcome = "running"
    /\ stop_waiting' = TRUE
    /\ delivered' = delivered \cup {"StopWaiting"}
    /\ UNCHANGED <<variant, inputs, continued, applied, wfvars, exit_requested,
                   continue_as_new_requested, iteration_count, ctlvars, trace, calls, waited>>
    /\ UNCHANGED returned
    /\ UNCHANGED written

\* the StopWaiting handler run while a cycle is in progress (run() is suspended
\* in an activity or in the approval wait), recorded as such
StopWaitingInCycle ==
    /\ variant = "proactive" /\ outcome = "running"
    /\ pc \in Activities \cup {"await_approval"}
    /\ stop_waiting' = TRUE
    /\ delivered' = delivered \cup {"StopWaiting", "StopWaiting in cycle"}
    /\ UNCHANGED <<variant, inputs, continued, applied, wfvars, exit_requested,
                   continue_as_new_requested, iteration_count, ctlvars, trace, calls, waited>>
    /\ UNCHANGED returned
    /\ UNCHANGED written

RequestContinueAsNew ==
    /\ variant = "proactive" /\ outcome = "running"
    /\ continue_as_new_requested' = TRUE
    /\ delivered' = delivered \cup {"RequestContinueAsNew"}
    /\ UNCHANGED <<variant, inputs, continued, applied, wfvars, exit_requested,
                   iteration_count, stop_waiting, ctlvars, trace, calls, waited>>
    /\ UNCHANGED returned
    /\ UNCHANGED written

----------------------------------------------------------------------------
(* RepairAgentWorkflowProactive.run *)

\* run() up to the first inter-cycle wait
ProactiveRunStart ==
    /\ variant = "proactive" /\ outcome = "running" /\ pc = "start"
    /\ context' = Put(Put(Put(context, "prompt", Get(inputs, "prompt", EmptyDict)),
                          "metadata", Get(inputs, "metadata", EmptyDict)),
                      "notification_info", Get(inputs, "callback", "None"))
    /\ LoopHead(<< >>, running)
    /\ UNCHANGED <<variant, inputs, continued, applied, rejected, planned,
                   problems_found_confidence_score, planning_confidence_score,
                   exit_requested, continue_as_new_requested>>
    /\ UNCHANGED returned
    /\ written' = ("prompt" :> Get(inputs, "prompt", EmptyDict)) @@ ("metadata" :> Get(inputs, "metadata", EmptyDict))
                   @@ ("notification_info" :> Get(inputs, "callback", "None")) @@ written

\* faulty variant, for comparison: only an exit request skips the iteration
CycleWaitResolves_ContinuationDetects ==
    /\ variant = "proactive" /\ outcome = "running" /\ pc = "wait_cycle"
    /\ CycleWaitCondition
    /\ IF exit_requested
       THEN LoopHead(<< >>, running)
       ELSE /\ SetStatus(<<"DETECTING-PROBLEMS">>)
            /\ Invoke("detect", running)
            /\ UNCHANGED <<iteration_count, approved, stop_waiting, outcome, result,
                           delivered, waited>>
    /\ UNCHANGED <<variant, inputs, continued, applied, rejected, planned, context,
                   problems_found_confidence_score, planning_confidence_score,
                   exit_requested, continue_as_new_requested>>
    /\ UNCHANGED returned
    /\ UNCHANGED written

\* the inter-cycle wait ends because its condition holds: the iteration is
\* skipped on an exit or continuation request, else detect is invoked
CycleWaitResolves ==
    /\ variant = "proactive" /\ outcome = "running" /\ pc = "wait_cycle"
    /\ CycleWaitCondition
    /\ IF continue_as_new_requested \/ exit_requested
       THEN LoopHead(<< >>, running)
       ELSE /\ SetStatus(<<"DETECTING-PROBLEMS">>)
            /\ Invoke("detect", running)
            /\ UNCHANGED <<iteration_count, approved, stop_waiting, outcome, result,
                           delivered, waited>>
    /\ UNCHANGED <<variant, inputs, continued, applied, rejected, planned, context,
                   problems_found_confidence_score, planning_confidence_score,
                   exit_requested, continue_as_new_requested>>
    /\ UNCHANGED returned
    /\ UNCHANGED written

\* the inter-cycle wait ends because its time bound (one day) elapsed:
\* wait_condition raises asyncio.TimeoutError, which run() does not catch
CycleWaitTimeout ==
    /\ variant = "proactive" /\ outcome = "running" /\ pc = "wait_cycle"
    /\ ~CycleWaitCondition
    /\ Fail("TimeoutError", running)
    /\ UNCHANGED <<variant, inputs, continued, applied, wfvars, provars, trace, delivered, waited>>
    /\ UNCHANGED returned
    /\ UNCHANGED written

\* faulty variant, for comparison: a cycle without repair discards the earlier results
ProactiveDetectReturns_Discards(r) ==
    /\ variant = "proactive" /\ Returned("detect")
    /\ problems_found_confidence_score' = << Get(r, "confidence_score", 0) >>
    /\ IF NoRepairNeeded(Get(r, "confidence_score", 0))
       THEN /\ context' = Put(EmptyDict, "detection_result", r)
            /\ LoopHead(<<"NO-REPAIR-NEEDED">>, running \ {"detect"})
       ELSE /\ context' = Put(context, "detection_result", r)
            /\ SetStatus(<<"ANALYZING-PROBLEMS">>)
            /\ Invoke("analyze", running \ {"detect"})
            /\ UNCHANGED <<iteration_count, approved, stop_waiting, outcome, result,
                           delivered, waited>>
    /\ UNCHANGED <<variant, inputs, continued, applied, rejected, planned, planning_confidence_score,
                   exit_requested, continue_as_new_requested>>
    /\ returned' = Put(returned, "detect", r)
    /\ written' = ("detection_result" :> r) @@ written

\* detect returns r: the confidence gate, then "continue" or analyze
ProactiveDetectReturns(r) ==
    /\ variant = "proactive" /\ Returned("detect")
    /\ context' = Put(context, "detection_result", r)
    /\ problems_found_confidence_score' = << Get(r, "confidence_score", 0) >>
    /\ IF NoRepairNeeded(Get(r, "confidence_score", 0))
       THEN LoopHead(<<"NO-REPAIR-NEEDED">>, running \ {"detect"})
       ELSE /\ SetStatus(<<"ANALYZING-PROBLEMS">>)
            /\ Invoke("analyze", running \ {"detect"})
            /\ UNCHANGED <<iteration_count, approved, stop_waiting, outcome, result,
                           delivered, waited>>
    /\ UNCHANGED <<variant, inputs, continued, applied, rejected, planned, planning_confidence_score,
                   exit_requested, continue_as_new_requested>>
    /\ returned' = Put(returned, "detect", r)
    /\ written' = ("detection_result" :> r) @@ written

\* plan_repair returns r: notify is invoked when the plan needs approval, else
\* the plan is approved by the workflow itself and execute_repairs is invoked
ProactivePlanReturns(r) ==
    /\ variant = "proactive" /\ Returned("plan_repair")
    /\ planned' = TRUE
    /\ planning_confidence_score' = << Get(r, "overall_confidence_score", 0) >>
    /\ IF NeedsApproval(Get(r, "overall_confidence_score", 0))
       THEN /\ context' = Put(context, "planning_result", r)
            /\ Invoke("notify", running \ {"plan_repair"})
            /\ UNCHANGED <<approved, status, trace>>
       ELSE /\ approved' = TRUE
            /\ context' = Put(Put(context, "planning_result", r),
                              "approved_by", AgenticApprover(r))
            /\ SetStatus(<<"APPROVED", "PENDING-REPAIR">>)
            /\ Invoke("execute_repairs", running \ {"plan_repair"})
    /\ UNCHANGED <<variant, inputs, continued, applied, rejected, problems_found_confidence_score,
                   provars, outcome, result, delivered, waited>>
    /\ returned' = Put(returned, "plan_repair", r)
    /\ written' = IF NeedsApproval(Get(r, "overall_confidence_score", 0))
                  THEN ("planning_result" :> r) @@ written
                  ELSE ("planning_result" :> r) @@ ("approved_by" :> AgenticApprover(r)) @@ written

\* notify returns; run() reaches the approval wait, which resolves at once when
\* a gate is already set
NotifyReturns ==
    /\ variant = "proactive" /\ Returned("notify")
    /\ IF ApprovalWaitCondition
       THEN ProactiveApprovalBranch(<<"PENDING-APPROVAL">>, running \ {"notify"})
       ELSE /\ SetStatus(<<"PENDING-APPROVAL">>)
            /\ pc' = "await_approval"
            /\ attempts' = 0
            /\ waited' = TRUE
            /\ running' = running \ {"notify"}
            /\ UNCHANGED <<calls, iteration_count, approved, stop_waiting, outcome, result,
                           delivered>>
    /\ UNCHANGED <<variant, inputs, continued, applied, rejected, planned, context,
                   problems_found_confidence_score, planning_confidence_score,
                   exit_requested, continue_as_new_requested>>
    /\ returned' = Put(returned, "notify", NotifyResult)
    /\ UNCHANGED written

\* the approval wait ends because its condition holds
ProactiveApprovalResolves ==
    /\ variant = "proactive" /\ outcome = "running" /\ pc = "await_approval"
    /\ ApprovalWaitCondition
    /\ ProactiveApprovalBranch(<< >>, running)
    /\ UNCHANGED <<variant, inputs, continued, applied, rejected, planned, context,
                   problems_found_confidence_score, planning_confidence_score,
                   exit_requested, continue_as_new_requested>>
    /\ UNCHANGED returned
    /\ UNCHANGED written

\* the approval wait ends because its time bound (20 hours) elapsed
ProactiveApprovalTimeout ==
    /\ variant = "proactive" /\ outcome = "running" /\ pc = "await_approval"
    /\ ~ApprovalWaitCondition
    /\ Fail("TimeoutError", running)
    /\ UNCHANGED <<variant, inputs, continued, applied, wfvars, provars, trace, delivered, waited>>
    /\ UNCHANGED returned
    /\ UNCHANGED written

\* report returns r: the end of the loop body
ProactiveReportReturns(r) ==
    /\ variant = "proactive" /\ Returned("report")
    /\ context' = Put(context, "report_result", r)
    /\ LoopHead(<<"REPORT-COMPLETED">>, running \ {"report"})
    /\ UNCHANGED <<variant, inputs, continued, applied, rejected, planned,
                   problems_found_confidence_score, planning_confidence_score,
                   exit_requested, continue_as_new_requested>>
    /\ returned' = Put(returned, "report", r)
    /\ written' = ("report_result" :> r) @@ written

\* faulty variant, for comparison: the new run takes over the gates and the context
ContinueAsNewRun_KeepsState ==
    /\ outcome = "continued-as-new"
    /\ approved' = FALSE
    /\ planned' = FALSE
    /\ status' = "INITIALIZING"
    /\ problems_found_confidence_score' = << >>
    /\ planning_confidence_score' = << >>
    /\ exit_requested' = FALSE
    /\ continue_as_new_requested' = FALSE
    /\ iteration_count' = 0
    /\ stop_waiting' = FALSE
    /\ pc' = "start"
    /\ attempts' = 0
    /\ running' = {}
    /\ outcome' = "running"
    /\ result' = ""
    /\ trace' = << >>
    /\ calls' = << >>
    /\ delivered' = {}
    /\ waited' = FALSE
    /\ continued' = TRUE
    /\ applied' = << >>
    /\ returned' = EmptyDict
    /\ written' = EmptyDict
    /\ UNCHANGED <<variant, inputs, rejected, context>>

\* workflow.continue_as_new(inputs): a new run of the same workflow starts from
\* the original payload
ContinueAsNewRun ==
    /\ outcome = "continued-as-new"
    /\ approved' = FALSE
    /\ rejected' = FALSE
    /\ planned' = FALSE
    /\ status' = "INITIALIZING"
    /\ context' = EmptyDict
    /\ problems_found_confidence_score' = << >>
    /\ planning_confidence_score' = << >>
    /\ exit_requested' = FALSE
    /\ continue_as_new_requested' = FALSE
    /\ iteration_count' = 0
    /\ stop_waiting' = FALSE
    /\ pc' = "start"
    /\ attempts' = 0
    /\ running' = {}
    /\ outcome' = "running"
    /\ result' = ""
    /\ trace' = << >>
    /\ calls' = << >>
    /\ delivered' = {}
    /\ waited' = FALSE
    /\ continued' = TRUE
    /\ applied' = << >>
    /\ returned' = EmptyDict
    /\ written' = EmptyDict
    /\ UNCHANGED <<variant, inputs>>

----------------------------------------------------------------------------
(* Specifications *)

Next ==
    \/ BaseRunStart
    \/ \E r \in DetectResults : BaseDetectReturns(r)
    \/ \E r \in AnalysisResults : AnalyzeReturns(r)
    \/ \E r \in PlanResults : BasePlanReturns(r)
    \/ BaseApprovalResolves
    \/ BaseApprovalTimeout
    \/ RepairReturns
    \/ \E r \in ReportResults : BaseReportReturns(r)
    \/ ActivityFails
    \/ \E resp \in LLMPlanResponses : PlanAttemptFails(resp)
    \/ \E k \in 1..(MaxOrders * MaxTools) : RepairAttemptFails(k)
    \/ \E who \in Identities : ApproveRepair(who)
    \/ \E who \in Identities : RejectRepair(who)
    \/ RequestExit
    \/ StopWaiting
    \/ RequestContinueAsNew
    \/ ProactiveRunStart
    \/ CycleWaitResolves
    \/ CycleWaitTimeout
    \/ \E r \in DetectResults : ProactiveDetectReturns(r)
    \/ \E r \in PlanResults : ProactivePlanReturns(r)
    \/ NotifyReturns
    \/ ProactiveApprovalResolves
    \/ ProactiveApprovalTimeout
    \/ \E r \in ReportResults : ProactiveReportReturns(r)
    \/ ContinueAsNewRun

Spec == Init /\ [][Next]_vars

NextBase ==
    \/ BaseRunStart
    \/ \E r \in DetectResults : BaseDetectReturns(r)
    \/ \E r \in AnalysisResults : AnalyzeReturns(r)
    \/ \E r \in PlanResults : BasePlanReturns(r)
    \/ BaseApprovalResolves
    \/ BaseApprovalTimeout
    \/ RepairReturns
    \/ \E r \in ReportResults : BaseReportReturns(r)
    \/ ActivityFails
    \/ \E resp \in LLMPlanResponses : PlanAttemptFails(resp)
    \/ \E k \in 1..(MaxOrders * MaxTools) : RepairAttemptFails(k)
    \/ \E who \in Identities : ApproveRepair(who)
    \/ \E who \in Identities : RejectRepair(who)

SpecBase == InitBase /\ [][NextBase]_vars

\* Temporal runs a workflow task whenever run() can go on, and (the premise of
\* the liveness claims) every activity eventually returns unless it fails
BaseProgress ==
    \/ BaseRunStart
    \/ \E r \in DetectResults : BaseDetectReturns(r)
    \/ \E r \in AnalysisResults : AnalyzeReturns(r)
    \/ \E r \in PlanResults : BasePlanReturns(r)
    \/ BaseApprovalResolves
    \/ RepairReturns
    \/ \E r \in ReportResults : BaseReportReturns(r)

FairSpecBase == SpecBase /\ WF_vars(BaseProgress)

\* as FairSpecBase, and the timer of the approval wait fires when its time has
\* elapsed with the condition still false
FairSpecBaseTimed == SpecBase /\ WF_vars(BaseProgress \/ BaseApprovalTimeout)

\* proactive runs paced by StopWaiting and ended by RequestExit or the
\* iteration cap, with the point of a cycle at which StopWaiting is handled
\* on record
NextPacing ==
    \/ ProactiveRunStart
    \/ CycleWaitResolves
    \/ CycleWaitTimeout
    \/ \E r \in DetectResults : ProactiveDetectReturns(r)
    \/ \E r \in AnalysisResults : AnalyzeReturns(r)
    \/ \E r \in PlanResults : ProactivePlanReturns(r)
    \/ NotifyReturns
    \/ ProactiveApprovalResolves
    \/ ProactiveApprovalTimeout
    \/ RepairReturns
    \/ \E r \in ReportResults : ProactiveReportReturns(r)
    \/ ActivityFails
    \/ ContinueAsNewRun
    \/ ApproveRepair("bob")
    \/ StopWaiting
    \/ StopWaitingInCycle
    \/ RequestExit

SpecPacing == InitProactive /\ [][NextPacing]_vars

\* Temporal runs a workflow task whenever run() can go on, the timers of the
\* waits fire, a continued run starts, and (the premise of the liveness
\* claims) every activity eventually returns unless it fails
ProactiveProgress ==
    \/ ProactiveRunStart
    \/ CycleWaitResolves
    \/ CycleWaitTimeout
    \/ \E r \in DetectResults : ProactiveDetectReturns(r)
    \/ \E r \in AnalysisResults : AnalyzeReturns(r)
    \/ \E r \in PlanResults : ProactivePlanReturns(r)
    \/ NotifyReturns
    \/ ProactiveApprovalResolves
    \/ ProactiveApprovalTimeout
    \/ RepairReturns
    \/ \E r \in ReportResults : ProactiveReportReturns(r)
    \/ ContinueAsNewRun

FairSpecPacing == SpecPacing /\ WF_vars(ProactiveProgress)

\* base runs that are approved, over plans of every shape
NextRepair ==
    \/ BaseRunStart
    \/ BaseDetectReturns([confidence_score |-> 50])
    \/ \E r \in AnalysisResults : AnalyzeReturns(r)
    \/ \E r \in RepairPlans : BasePlanReturns(r)
    \/ BaseApprovalResolves
    \/ RepairReturns
    \/ \E k \in 1..(MaxOrders * MaxTools) : RepairAttemptFails(k)
    \/ \E r \in ReportResults : BaseReportReturns(r)
    \/ ApproveRepair("bob")

SpecRepair == InitBase /\ [][NextRepair]_vars

----------------------------------------------------------------------------
(* Queries: << >> when the query raises ApplicationError, else <<value>> *)

\* faulty variant, for comparison: the query answers with a default when the key is missing
GetRepairContextValue_Default(key) == << Get(context, key, EmptyDict) >>

GetRepairContextValue(key) ==
    IF key \notin DOMAIN context THEN << >> ELSE << context[key] >>

GetRepairContextKeys == Keys(context)

GetRepairAnalysisResult ==
    IF "analysis_result" \notin DOMAIN context THEN << >> ELSE << context["analysis_result"] >>

GetRepairDetectionResult ==
    IF "detection_result" \notin DOMAIN context THEN << >> ELSE << context["detection_result"] >>

\* faulty variant, for comparison: the query answers with a default before the plan exists
GetRepairPlanningResult_Default == << Get(context, "planning_result", EmptyDict) >>

GetRepairPlanningResult ==
    IF "planning_result" \notin DOMAIN context THEN << >> ELSE << context["planning_result"] >>

GetRepairToolResults ==
    IF "repair_result" \notin DOMAIN context THEN << >> ELSE << context["repair_result"] >>

GetRepairReport ==
    IF "report_result" \notin DOMAIN context THEN << >> ELSE << context["report_result"] >>

\* the attribute is created by its first assignment in run(): before that the
\* query raises AttributeError; it is never None
GetProblemsConfidenceScore ==
    IF problems_found_confidence_score = << >>
    THEN << >>
    ELSE << problems_found_confidence_score[1] >>

GetPlannedRepairConfidenceScore ==
    IF planning_confidence_score = << >>
    THEN << >>
    ELSE << planning_confidence_score[1] >>

----------------------------------------------------------------------------
(* Properties *)

Range(s) == { s[i] : i \in DOMAIN s }

IsPrefix(a, b) == Len(a) <= Len(b) /\ \A i \in 1..Len(a) : a[i] = b[i]

\* the labels of trace set after the inter-cycle wait began (all of trace in the
\* base workflow, which has no such wait)
CycleLabels ==
    LET at == { i \in DOMAIN trace : trace[i] = "WAITING-FOR-NEXT-CYCLE" }
    IN  IF at = {} THEN trace
        ELSE SubSeq(trace, (CHOOSE i \in at : \A j \in at : j <= i) + 1, Len(trace))

DetectionScore == Get(context["detection_result"], "confidence_score", 0)

PlanScore == Get(context["planning_result"], "overall_confidence_score", 0)

\* C1: in both workflows execute_repairs is scheduled or running only while
\* approved is true, whichever way the approval wait ended.
C1_RepairOnlyWhenApproved ==
    "execute_repairs" \in running => approved = TRUE

C1_Witness ==
    /\ variant = "base"
    /\ "execute_repairs" \in running
    /\ waited
    /\ approved

\* C2: in the base workflow a detection score below 0.5 (a missing score reads
\* as 0.0) ends the run as NO-REPAIR-NEEDED with detect the only activity ever
\* invoked; a score of 0.5 or more goes on to analyze.
C2_ConfidenceGate ==
    (variant = "base" /\ "detection_result" \in DOMAIN context) =>
        IF DetectionScore < 50
        THEN /\ status = "NO-REPAIR-NEEDED"
             /\ outcome = "completed"
             /\ calls = <<"detect">>
             /\ running = {}
        ELSE /\ Len(calls) >= 2
             /\ calls[2] = "analyze"
             /\ "NO-REPAIR-NEEDED" \notin Range(trace)

C2_Witness ==
    /\ variant = "base"
    /\ status = "NO-REPAIR-NEEDED"
    /\ DetectionScore = 49
    /\ outcome = "completed"

\* C3: in the base workflow the only way out of the approval wait with neither
\* gate set is the failure of the run with a timeout error: the status stays
\* PENDING-APPROVAL and neither execute_repairs nor report is invoked.
C3_ApprovalTimeoutFails ==
    /\ [][ (variant = "base" /\ pc = "await_approval" /\ ~approved /\ ~rejected
              /\ pc' # "await_approval")
           => (outcome' = "failed" /\ result' = "TimeoutError") ]_vars
    /\ [](result = "TimeoutError" /\ variant = "base" =>
            /\ outcome = "failed"
            /\ status = "PENDING-APPROVAL"
            /\ ~approved /\ ~rejected
            /\ {"APPROVED", "REJECTED"} \cap Range(trace) = {}
            /\ {"execute_repairs", "report"} \cap Range(calls) = {}
            /\ running = {})

C3_Witness ==
    /\ variant = "base"
    /\ outcome = "failed"
    /\ result = "TimeoutError"

\* C4: in the base workflow, once the approval wait has been reached with
\* RejectRepair delivered and ApproveRepair not, the run ends REJECTED without
\* execute_repairs or report, and GetRepairToolResults keeps failing.
C4_RejectionEndsRun ==
    (variant = "base" /\ rejected /\ ~approved /\ "PENDING-APPROVAL" \in Range(trace)) =>
        \/ pc = "await_approval"
        \/ /\ status = "REJECTED"
           /\ outcome = "completed"
           /\ {"execute_repairs", "report"} \cap Range(calls) = {}
           /\ running = {}
           /\ GetRepairToolResults = << >>

C4_Witness ==
    /\ variant = "base"
    /\ status = "REJECTED"
    /\ rejected /\ ~approved
    /\ GetRepairToolResults = << >>

\* C5: when the approval wait ends with approved and rejected both set, the
\* cycle is rejected: REJECTED is set and execute_repairs is not invoked.
C5_RejectionWins ==
    [][ ( /\ approved /\ rejected
          /\ outcome = "running" /\ outcome' # "failed"
          /\ \/ pc = "await_approval"
             \/ variant = "base" /\ pc = "plan_repair"
             \/ pc = "notify"
          /\ pc' # pc )
        => /\ "execute_repairs" \notin running'
           /\ \/ status' = "REJECTED"
              \/ /\ status' = "WAITING-FOR-NEXT-CYCLE"
                 /\ Len(trace') >= 2
                 /\ trace'[Len(trace') - 1] = "REJECTED" ]_vars

C5_Witness ==
    /\ approved /\ rejected
    /\ status = "REJECTED"
    /\ "execute_repairs" \notin Range(calls)

\* C6: in the base workflow, with detection at 0.5 or more and ApproveRepair
\* delivered, the run reaches REPORT-COMPLETED unless it is rejected or an
\* activity fails; a completed run has set APPROVED, PENDING-REPAIR,
\* PENDING-REPORT and REPORT-COMPLETED in that order and holds repair_result
\* and report_result.
C6_ApprovedRunCompletes ==
    /\ [](variant = "base" /\ status = "REPORT-COMPLETED" =>
            /\ outcome = "completed"
            /\ Len(trace) >= 4
            /\ SubSeq(trace, Len(trace) - 3, Len(trace))
                 = <<"APPROVED", "PENDING-REPAIR", "PENDING-REPORT", "REPORT-COMPLETED">>
            /\ GetRepairToolResults # << >>
            /\ GetRepairReport # << >>)
    /\ ( ( /\ variant = "base"
           /\ approved /\ ~rejected
           /\ "detection_result" \in DOMAIN context
           /\ DetectionScore >= 50 )
         ~> (status = "REPORT-COMPLETED" \/ rejected \/ result = "ActivityError") )

C6_Witness ==
    /\ variant = "base"
    /\ status = "REPORT-COMPLETED"
    /\ approved /\ ~rejected
    /\ {"repair_result", "report_result"} \subseteq DOMAIN context

\* C7: the activities of a run (of an iteration) are invoked in the order
\* detect, analyze, plan_repair, (notify,) execute_repairs, report, each one
\* after the one before it has returned, and at most one is in flight.
C7_ActivityOrder ==
    /\ Cardinality(running) <= 1
    /\ running # {} => (calls # << >> /\ running = {Last(calls)})
    /\ \/ IsPrefix(calls, <<"detect", "analyze", "plan_repair", "execute_repairs", "report">>)
       \/ /\ variant = "proactive"
          /\ IsPrefix(calls, <<"detect", "analyze", "plan_repair", "notify",
                               "execute_repairs", "report">>)

C7_Witness ==
    /\ calls = <<"detect", "analyze", "plan_repair", "notify", "execute_repairs", "report">>
    /\ running = {"report"}

\* C8: in the base workflow a gate signal handled before run() reaches the
\* approval wait is still in effect there: the wait ends at once, without
\* run() suspending, and the branch of that signal is taken.
C8_EarlySignalObserved ==
    [][ ( /\ variant = "base"
          /\ pc = "plan_repair" /\ pc' # "plan_repair"
          /\ outcome' # "failed"
          /\ delivered # {} )
        => /\ pc' # "await_approval"
           /\ waited' = FALSE
           /\ IF "RejectRepair" \in delivered
              THEN status' = "REJECTED" /\ outcome' = "completed"
              ELSE /\ status' = "PENDING-REPAIR"
                   /\ "APPROVED" \in Range(trace')
                   /\ "execute_repairs" \in running' ]_vars

C8_Witness ==
    /\ variant = "base"
    /\ "ApproveRepair" \in delivered
    /\ "PENDING-APPROVAL" \in Range(trace)
    /\ ~waited
    /\ "execute_repairs" \in running

\* C9: in the proactive workflow a plan with overall confidence above 0.95 is
\* approved by the step in which plan_repair returns: approved is set, APPROVED
\* is the next status, notify is not invoked, no signal is needed, approved_by
\* tells the plan's score, and execute_repairs is invoked.
C9_AutoApproval ==
    [][ ( /\ variant = "proactive"
          /\ pc = "plan_repair" /\ pc' # "plan_repair"
          /\ outcome' = "running"
          /\ Get(context'["planning_result"], "overall_confidence_score", 0) > 95 )
        => /\ approved'
           /\ trace' = trace \o <<"APPROVED", "PENDING-REPAIR">>
           /\ calls' = Append(calls, "execute_repairs")
           /\ "notify" \notin Range(calls')
           /\ running' = {"execute_repairs"}
           /\ delivered' = delivered
           /\ context'["approved_by"] =
                 "Agentically Approved with confidence score "
                    \o ScoreText(Get(context'["planning_result"], "overall_confidence_score", 0)) ]_vars

C9_Witness ==
    /\ variant = "proactive"
    /\ "execute_repairs" \in running
    /\ "ApproveRepair" \notin delivered
    /\ approved
    /\ "notify" \notin Range(calls)
    /\ context["approved_by"] = "Agentically Approved with confidence score 0.96"

\* C10: in the proactive workflow a plan with overall confidence of 0.95 or
\* less (or none) makes run() invoke notify once, right after plan_repair and
\* before PENDING-APPROVAL is set, and then wait for a gate: the workflow does
\* not approve by itself, and the wait is passed without suspending only when
\* a gate is already set.
C10_NotifyThenWait ==
    (variant = "proactive" /\ Len(calls) >= 4 /\ PlanScore <= 95) =>
        /\ calls[4] = "notify"
        /\ Cardinality({ i \in DOMAIN calls : calls[i] = "notify" }) = 1
        /\ ("PENDING-APPROVAL" \in Range(CycleLabels))
              <=> ~(Last(calls) = "notify" /\ (pc = "notify" \/ result = "ActivityError"))
        /\ approved => "ApproveRepair" \in delivered
        /\ "execute_repairs" \in Range(calls) => approved
        /\ pc = "await_approval" => (waited /\ status = "PENDING-APPROVAL")
        /\ ("PENDING-APPROVAL" \in Range(CycleLabels) /\ ~waited) => (approved \/ rejected)

C10_Witness ==
    /\ variant = "proactive"
    /\ calls = <<"detect", "analyze", "plan_repair", "notify">>
    /\ PlanScore = 95
    /\ pc = "await_approval"
    /\ ~approved /\ ~rejected

\* the step of the proactive run() that ends the approval wait or finds it
\* already resolved, other than by the failure of the run
LeavesApprovalGate ==
    /\ variant = "proactive"
    /\ pc \in {"notify", "await_approval"}
    /\ pc' \notin {pc, "await_approval"}
    /\ outcome' # "failed"

\* C11: in the proactive workflow a detection below 0.5 sets NO-REPAIR-NEEDED,
\* invokes no further activity in that iteration and leaves the run running in
\* the inter-cycle wait (unless exit, continuation or the cap ends the loop);
\* that wait, absent an exit or continuation request, ends in a further detect.
C11_LowConfidenceCycle ==
    /\ [][ ( /\ variant = "proactive"
             /\ pc = "detect" /\ pc' # "detect" /\ outcome' # "failed"
             /\ Get(context'["detection_result"], "confidence_score", 0) < 50 )
           => /\ calls = <<"detect">>
              /\ running' = {}
              /\ IF LoopCondition
                 THEN /\ trace' = <<"NO-REPAIR-NEEDED", "WAITING-FOR-NEXT-CYCLE">>
                      /\ outcome' = "running"
                      /\ pc' = "wait_cycle"
                      /\ calls' = << >>
                 ELSE /\ status' = "NO-REPAIR-NEEDED"
                      /\ calls' = calls ]_vars
    /\ [][ ( /\ variant = "proactive"
             /\ pc = "wait_cycle" /\ pc' # "wait_cycle"
             /\ trace[1] = "NO-REPAIR-NEEDED"
             /\ ~exit_requested /\ ~continue_as_new_requested )
           => (pc' = "detect" /\ outcome' = "running") ]_vars

\* C12: in the proactive workflow a rejection sets REJECTED, keeps
\* execute_repairs and report from being invoked in that iteration and leaves
\* the run running in the inter-cycle wait (unless the loop ends); and it ends
\* that cycle only: an iteration is rejected only by a RejectRepair of its own.
C12_RejectionEndsOnlyCycle ==
    /\ [][ (LeavesApprovalGate /\ rejected)
           => /\ {"execute_repairs", "report"} \cap Range(calls) = {}
              /\ running' = {}
              /\ IF LoopCondition
                 THEN /\ trace'[Len(trace') - 1] = "REJECTED"
                      /\ outcome' = "running"
                      /\ pc' = "wait_cycle"
                 ELSE status' = "REJECTED" ]_vars
    /\ [][ (LeavesApprovalGate /\ pc' # "execute_repairs")
           => "RejectRepair" \in delivered ]_vars

\* C16: the proactive loop paces itself: an inter-cycle wait during which no
\* signal sets its condition ends by its time bound with detect being
\* invoked, and the loop head reached after the cap-th iteration continues the
\* run as new.
C16_SelfPacing ==
    /\ [][ ( /\ variant = "proactive"
             /\ pc = "wait_cycle" /\ pc' # "wait_cycle"
             /\ ~CycleWaitCondition )
           => (pc' = "detect" /\ outcome' = "running") ]_vars
    /\ [][ ( /\ variant = "proactive"
             /\ outcome = "running" /\ outcome' = "continued-as-new" )
           => (iteration_count >= ITERATIONS_BEFORE_CONTINUE_AS_NEW
                 \/ continue_as_new_requested) ]_vars

\* C17: in the proactive workflow the failure of an activity does not end the
\* run: the run fails for no activity's failure.
C17_FailureAbortsOnlyCycle ==
    variant = "proactive" => ~(outcome = "failed" /\ result = "ActivityError")

\* C13: in the proactive workflow iteration_count never exceeds the cap, it
\* changes only by an iteration starting below the cap or by the reset of a
\* continuation, and a run that leaves its loop at the cap without an exit
\* request continues as new.
C13_IterationCap ==
    /\ [](iteration_count <= ITERATIONS_BEFORE_CONTINUE_AS_NEW)
    /\ [][ iteration_count' # iteration_count
           => \/ /\ iteration_count < ITERATIONS_BEFORE_CONTINUE_AS_NEW
                 /\ iteration_count' = iteration_count + 1
                 /\ pc' = "wait_cycle"
              \/ /\ outcome = "continued-as-new"
                 /\ iteration_count' = 0 ]_vars
    /\ [][ ( /\ variant = "proactive"
             /\ iteration_count = ITERATIONS_BEFORE_CONTINUE_AS_NEW
             /\ outcome = "running" /\ outcome' # "failed"
             /\ pc # "wait_cycle" /\ pc' \notin {pc, "await_approval"} /\ pc' \notin Activities )
           => IF exit_requested
              THEN outcome' = "completed"
              ELSE outcome' = "continued-as-new" ]_vars

C13_Witness ==
    /\ variant = "proactive"
    /\ outcome = "continued-as-new"
    /\ iteration_count = ITERATIONS_BEFORE_CONTINUE_AS_NEW
    /\ ~continue_as_new_requested
    /\ ~exit_requested

\* C14: the run started by a continuation begins as a new instance with the
\* start payload of the run before it: counter 0, every gate and request false,
\* status INITIALIZING, nothing in the context; and all its context ever holds
\* is what this run itself stored, which after the first step of run() is
\* prompt, metadata and notification_info of the payload (and the identity of
\* a gate signal handled before run() started).
C14_ContinuationResets ==
    /\ [][ (outcome = "continued-as-new" /\ outcome' = "running")
           => /\ iteration_count' = 0
              /\ ~approved' /\ ~rejected' /\ ~planned'
              /\ ~exit_requested' /\ ~continue_as_new_requested' /\ ~stop_waiting'
              /\ status' = "INITIALIZING"
              /\ context' = EmptyDict
              /\ inputs' = inputs
              /\ pc' = "start" ]_vars
    /\ [][ (continued /\ pc = "start" /\ pc' # "start")
           => /\ DOMAIN context' \subseteq
                    {"prompt", "metadata", "notification_info", "approved_by", "rejected_by"}
              /\ context'["prompt"] = inputs["prompt"]
              /\ context'["metadata"] = inputs["metadata"]
              /\ context'["notification_info"] = "None"
              /\ "approved_by" \in DOMAIN context' => "ApproveRepair" \in delivered
              /\ "rejected_by" \in DOMAIN context' => "RejectRepair" \in delivered ]_vars
    /\ [](continued =>
            /\ inputs \in StartPayloads
            /\ \A k \in DOMAIN context : k \in DOMAIN written
            /\ "detection_result" \in DOMAIN context => "detect" \in DOMAIN returned
            /\ "analysis_result" \in DOMAIN context => "analyze" \in DOMAIN returned
            /\ "planning_result" \in DOMAIN context => "plan_repair" \in DOMAIN returned
            /\ "repair_result" \in DOMAIN context => "execute_repairs" \in DOMAIN returned
            /\ "report_result" \in DOMAIN context => "report" \in DOMAIN returned)

C14_Witness ==
    /\ continued
    /\ pc = "wait_cycle"
    /\ iteration_count = 1
    /\ DOMAIN context = {"prompt", "metadata", "notification_info"}
    /\ ~rejected

BasePhases == <<"detect", "analyze", "plan_repair", "execute_repairs", "report">>

PhaseLabels == <<"DETECTING-PROBLEMS", "ANALYZING-PROBLEMS", "PLANNING-REPAIR",
                 "PENDING-REPAIR", "PENDING-REPORT">>

\* C18: a base run in which an activity failed for good has ended in failure at
\* that phase: the activities invoked are those up to the failed one, the
\* status is the label of the failed phase, the context holds the result of
\* neither the failed phase nor a later one, and nothing happens afterwards.
C18_FatalFailureEndsRun ==
    /\ [](variant = "base" /\ result = "ActivityError" =>
            /\ outcome = "failed"
            /\ running = {}
            /\ calls # << >>
            /\ \E i \in DOMAIN BasePhases :
                 /\ calls = SubSeq(BasePhases, 1, i)
                 /\ status = PhaseLabels[i]
                 /\ Last(trace) = PhaseLabels[i]
                 /\ \A j \in i..Len(BasePhases) : ResultKey(BasePhases[j]) \notin DOMAIN context)
    /\ [][ (variant = "base" /\ outcome = "failed") => UNCHANGED vars ]_vars

C18_Witness ==
    /\ variant = "base"
    /\ outcome = "failed"
    /\ result = "ActivityError"
    /\ calls = <<"detect", "analyze", "plan_repair">>
    /\ "analysis_result" \in DOMAIN context

\* C19: at every point of a base run each result query raises exactly when its
\* activity has not returned to run(), and otherwise answers with the result
\* that activity returned.
C19_ResultQueries ==
    variant = "base" =>
        LET Answer(act) ==
                CASE act = "detect" -> GetRepairDetectionResult
                  [] act = "analyze" -> GetRepairAnalysisResult
                  [] act = "plan_repair" -> GetRepairPlanningResult
                  [] act = "execute_repairs" -> GetRepairToolResults
                  [] act = "report" -> GetRepairReport
        IN  \A i \in DOMAIN BasePhases :
                LET act == BasePhases[i]
                IN  IF act \in DOMAIN returned
                    THEN Answer(act) = << returned[act] >>
                    ELSE Answer(act) = << >>

C19_Witness ==
    /\ variant = "base"
    /\ pc = "await_approval"
    /\ GetRepairPlanningResult # << >>
    /\ GetRepairToolResults = << >>

\* the keys looked up, one of which is never stored
ContextKeys ==
    {"prompt", "metadata", "notification_info", "detection_result", "analysis_result",
     "problems_to_repair", "planning_result", "repair_result", "report_result",
     "approved_by", "rejected_by", "no_such_key"}

\* C20: in every state GetRepairContextValue answers, for a key the run has
\* stored, with the value last stored under it, and GetRepairContextKeys lists
\* the key; for a key never stored the query raises and the key is not listed.
C20_ContextRoundTrip ==
    \A k \in ContextKeys :
        IF k \in DOMAIN written
        THEN /\ GetRepairContextValue(k) = << written[k] >>
             /\ k \in GetRepairContextKeys
        ELSE /\ GetRepairContextValue(k) = << >>
             /\ k \notin GetRepairContextKeys

C20_Witness ==
    /\ GetRepairContextValue("approved_by") = << "bob" >>
    /\ GetRepairContextValue("rejected_by") = << >>
    /\ GetRepairContextValue("report_result") # << >>
    /\ {"prompt", "repair_result", "problems_to_repair"} \subseteq GetRepairContextKeys

\* C21: within a run the keys of the context only grow: whatever key the
\* context holds it still holds after every step of the run, in every later
\* iteration too (a continuation starts another run).
C21_KeysOnlyGrow ==
    [][ outcome # "continued-as-new" => DOMAIN context \subseteq DOMAIN context' ]_vars

C21_Witness ==
    /\ variant = "proactive"
    /\ iteration_count >= 2
    /\ pc = "detect"
    /\ {"report_result", "approved_by", "rejected_by"} \subseteq DOMAIN context

\* C22: ApproveRepair sets approved and records the approver: the identity
\* given or, for an empty identity, the metadata.user of the start payload, at
\* whatever point of the run the signal is handled.
C22_ApproverRecorded ==
    [][ \A who \in Identities :
            ApproveRepair(who)
            => /\ approved'
               /\ context'["approved_by"] =
                     IF who = "" THEN inputs["metadata"]["user"] ELSE who ]_vars

\* C23: ApproveRepair leaves approved true however often it is delivered, it
\* invokes nothing itself, and execute_repairs is invoked at most once in a
\* base run and in a proactive iteration.
C23_ApproveIdempotent ==
    /\ [][ (approved /\ pc' = pc) => approved' ]_vars
    /\ [][ pc' = pc => (calls' = calls /\ running' = running) ]_vars
    /\ [](Cardinality({ i \in DOMAIN calls : calls[i] = "execute_repairs" }) <= 1)

C23_Witness ==
    /\ "ApproveRepair" \in delivered
    /\ approved
    /\ pc = "report"
    /\ Cardinality({ i \in DOMAIN calls : calls[i] = "execute_repairs" }) = 1

\* the tools of the plan in the context, as (order, position) pairs
PlannedToolAt ==
    LET proposed == context["planning_result"]["proposed_tools"]
    IN  { << o, i >> \in (DOMAIN proposed) \X (1..MaxTools + 1) : i \in DOMAIN proposed[o][2] }

PlannedScore(at) ==
    LET tool == context["planning_result"]["proposed_tools"][at[1]][2][at[2]]
    IN  IF "confidence_score" \in DOMAIN tool THEN tool["confidence_score"] ELSE 0

\* C24: once execute_repairs has returned for a non-empty plan,
\* problems_repaired is the number of planned tools with a score of at least
\* 0.5, problems_skipped the number with a lower or no score, the two add up
\* to the number of planned tools, and repair_tool_details holds one entry for
\* each executed tool, in the order of the plan, and none for a skipped one.
C24_RepairCounts ==
    ("repair_result" \in DOMAIN context
        /\ context["planning_result"]["proposed_tools"] # << >>) =>
        LET res == context["repair_result"]
            run == { at \in PlannedToolAt : PlannedScore(at) >= 50 }
            skipped == { at \in PlannedToolAt : PlannedScore(at) < 50 }
            details == res["repair_tool_details"]
            Before(a, b) == a[1] < b[1] \/ (a[1] = b[1] /\ a[2] < b[2])
        IN  /\ res["problems_repaired"] = Cardinality(run)
            /\ res["problems_skipped"] = Cardinality(skipped)
            /\ res["problems_repaired"] + res["problems_skipped"] = Cardinality(PlannedToolAt)
            /\ Len(details) = Cardinality(run)
            /\ \A at \in run :
                 LET n == Cardinality({ b \in run : Before(b, at) }) + 1
                 IN  /\ details[n]["order_id"] = OrderId(at[1])
                     /\ details[n]["confidence_score"] = PlannedScore(at)

C24_Witness ==
    /\ "repair_result" \in DOMAIN context
    /\ Len(context["planning_result"]["proposed_tools"]) = 2
    /\ context["repair_result"]["problems_repaired"] = 1
    /\ context["repair_result"]["problems_skipped"] = 1
    /\ \E at \in PlannedToolAt :
         "confidence_score" \notin
            DOMAIN context["planning_result"]["proposed_tools"][at[1]][2][at[2]]
    /\ \E at \in PlannedToolAt : PlannedScore(at) = 50

\* C25: every proactive iteration starts with approved, rejected and
\* stop_waiting all false, so that rejected is true in an iteration only when
\* a RejectRepair was delivered during that iteration.
C25_GatesResetEachIteration ==
    /\ [][ (variant = "proactive" /\ pc # "start"
              /\ iteration_count' = iteration_count + 1)
           => (~approved' /\ ~rejected' /\ ~stop_waiting') ]_vars
    /\ []((variant = "proactive" /\ pc # "start" /\ rejected)
           => "RejectRepair" \in delivered)

\* C26: a gate signal is ignored once the same or the opposing gate is set:
\* approved and rejected are never both true, and a signal handled while a
\* gate is set leaves both gates and the recorded approved_by / rejected_by
\* as they are.
C26_GateSignalsIgnored ==
    /\ [](~(approved /\ rejected))
    /\ [][ (pc' = pc /\ (approved \/ rejected))
           => /\ approved' = approved
              /\ rejected' = rejected
              /\ \A k \in {"approved_by", "rejected_by"} :
                   k \in DOMAIN context
                     => (k \in DOMAIN context' /\ context'[k] = context[k]) ]_vars

\* the statuses run() of the base workflow sets on its way to the report
StatusChain ==
    <<"DETECTING-PROBLEMS", "ANALYZING-PROBLEMS", "PLANNING-REPAIR", "PENDING-APPROVAL",
      "APPROVED", "PENDING-REPAIR", "PENDING-REPORT", "REPORT-COMPLETED">>

TerminalStatuses == {"NO-REPAIR-NEEDED", "REJECTED", "REPORT-COMPLETED"}

\* C27: in the base workflow the statuses set so far are INITIALIZING followed
\* by an initial part of the chain DETECTING-PROBLEMS ... REPORT-COMPLETED, left
\* only from DETECTING-PROBLEMS to NO-REPAIR-NEEDED or from PENDING-APPROVAL to
\* REJECTED, so no status is re-entered or skipped; and a run whose status is
\* NO-REPAIR-NEEDED, REJECTED or REPORT-COMPLETED has ended: no activity is
\* scheduled and nothing changes any more.
C27_StatusOnlyForward ==
    /\ [](variant = "base" =>
            /\ status = IF trace = << >> THEN "INITIALIZING" ELSE Last(trace)
            /\ \/ IsPrefix(trace, StatusChain)
               \/ trace = <<"DETECTING-PROBLEMS", "NO-REPAIR-NEEDED">>
               \/ trace = SubSeq(StatusChain, 1, 4) \o <<"REJECTED">>
            /\ status \in TerminalStatuses
                 => (outcome = "completed" /\ pc = "done" /\ running = {}))
    /\ [][ (variant = "base" /\ status \in TerminalStatuses) => UNCHANGED vars ]_vars

C27_Witness ==
    /\ variant = "base"
    /\ trace = StatusChain
    /\ outcome = "completed"
    /\ {"ApproveRepair", "RejectRepair"} \subseteq delivered

\* C28: every base run ends, whether or not a signal is ever delivered, given
\* that each activity returns or fails for good: it ends completed with status
\* NO-REPAIR-NEEDED, REJECTED or REPORT-COMPLETED, or failed by the time bound
\* of the approval wait or by an activity; it does not stay in the approval
\* wait.
C28_BaseRunTerminates ==
    /\ <>(outcome \in {"completed", "failed"})
    /\ (pc = "await_approval") ~> (pc # "await_approval")
    /\ [](outcome = "completed" => status \in TerminalStatuses)
    /\ [](outcome = "failed" => result \in {"TimeoutError", "ActivityError"})

C28_Witness ==
    /\ variant = "base"
    /\ delivered = {}
    /\ status = "PENDING-APPROVAL"
    /\ outcome = "failed"
    /\ result = "TimeoutError"

\* C29: a plan response with a proposed tool that lacks tool_name or
\* tool_arguments makes the plan activity fail without being retried: the
\* attempt that receives it ends the activity and the cycle at once, with
\* planned false and no planning_result, and is never followed by a plan
\* result in that cycle.
C29_InvalidPlanNotRetried ==
    /\ [][ \A resp \in LLMPlanResponses :
             (~PlanValid(resp) /\ PlanAttemptFails(resp))
               => /\ "plan_repair" \notin running'
                  /\ pc' # "plan_repair"
                  /\ ~planned'
                  /\ "planning_result" \notin DOMAIN written' ]_vars
    /\ [][ attempts > 0 => \A r \in PlanResults : ~BasePlanReturns(r) ]_vars

\* the plan activity has returned a result to run() in the current cycle
PlanReturnedThisCycle ==
    /\ "plan_repair" \in Range(calls)
    /\ "plan_repair" \notin running
    /\ ~(result = "ActivityError" /\ Last(calls) = "plan_repair")

\* C30: planned is true exactly when the plan activity has returned a result
\* in the current cycle (the base run, or the current proactive iteration).
C30_PlannedExactlyThisCycle ==
    planned <=> PlanReturnedThisCycle

\* C31: a cycle that has taken the approval branch (APPROVED set, by a signal
\* or by the workflow itself) is not cancelled by a rejection: REJECTED is not
\* set in it, execute_repairs has been invoked, a RejectRepair handled from
\* then on changes neither the status nor the activities, and when
\* execute_repairs returns report is invoked, whether rejected is set or not.
C31_ApprovedNotCancellable ==
    /\ []("APPROVED" \in Range(CycleLabels)
            => /\ "REJECTED" \notin Range(CycleLabels)
               /\ "execute_repairs" \in Range(calls))
    /\ [][ \A who \in Identities :
             ("APPROVED" \in Range(CycleLabels) /\ RejectRepair(who))
               => UNCHANGED <<status, trace, calls, ctlvars, approved>> ]_vars
    /\ [][ (pc = "execute_repairs" /\ pc' # pc /\ outcome' # "failed")
           => /\ "APPROVED" \in Range(CycleLabels)
              /\ pc' = "report"
              /\ status' = "PENDING-REPORT" ]_vars
    /\ [][ (pc = "report" /\ pc' # pc /\ outcome' # "failed")
           => "REPORT-COMPLETED" \in Range(trace') ]_vars

C31_Witness ==
    /\ variant = "proactive"
    /\ pc = "report"
    /\ rejected
    /\ "RejectRepair" \in delivered
    /\ "ApproveRepair" \notin delivered
    /\ "APPROVED" \in Range(CycleLabels)

\* C32: in the proactive workflow the inter-cycle wait follows a cycle: the
\* status WAITING-FOR-NEXT-CYCLE is set only directly after NO-REPAIR-NEEDED,
\* REJECTED or REPORT-COMPLETED, and a run is in the inter-cycle wait only when
\* a detect of this run has returned before (its first detect is not preceded
\* by a wait).
C32_WaitFollowsCycle ==
    /\ [][ (status' = "WAITING-FOR-NEXT-CYCLE" /\ status # "WAITING-FOR-NEXT-CYCLE")
           => /\ Len(trace') >= 2
              /\ trace'[Len(trace') - 1] \in TerminalStatuses ]_vars
    /\ [](pc = "wait_cycle" => "detect" \in DOMAIN returned)

\* C33: a StopWaiting handled before run() begins an inter-cycle wait (before
\* run() has started, or while a cycle's activity or approval wait is in
\* progress) is observed by that wait: the wait begins with stop_waiting
\* true.
C33_StopWaitingObserved ==
    [][ (/\ pc # "wait_cycle"
         /\ pc' = "wait_cycle"
         /\ \/ "StopWaiting in cycle" \in delivered
            \/ (pc = "start" /\ "StopWaiting" \in delivered))
        => stop_waiting' ]_vars

\* C34: when the inter-cycle wait of a proactive run ends with RequestExit or
\* RequestContinueAsNew in effect, the iteration invokes no activity and the
\* loop ends; detect is invoked only out of an inter-cycle wait that ended
\* with neither request set (by StopWaiting), and no activity is ever in
\* flight or invoked in an iteration while it has not got past its wait.
C34_RequestSkipsIteration ==
    /\ [][ (pc = "wait_cycle" /\ pc' # pc
              /\ (exit_requested \/ continue_as_new_requested))
           => /\ pc' = "done"
              /\ calls' = << >>
              /\ running' = {}
              /\ outcome' = IF exit_requested THEN "completed" ELSE "continued-as-new" ]_vars
    /\ [][ (variant = "proactive" /\ pc' = "detect" /\ pc # "detect")
           => /\ pc = "wait_cycle"
              /\ stop_waiting
              /\ ~exit_requested /\ ~continue_as_new_requested ]_vars
    /\ [](pc = "wait_cycle" => (calls = << >> /\ running = {}))

C34_Witness ==
    /\ variant = "proactive"
    /\ pc = "done"
    /\ outcome = "continued-as-new"
    /\ continue_as_new_requested
    /\ stop_waiting
    /\ iteration_count = 2
    /\ calls = << >>

\* C35: in the proactive workflow approved is false when an iteration begins
\* and becomes true only by an ApproveRepair handled from then on or by the
\* workflow's own approval of a plan scored above 0.95; so an iteration whose
\* plan is scored at most 0.95 and that has invoked execute_repairs has had an
\* ApproveRepair delivered since it began.
C35_ApprovalNotCarriedOver ==
    /\ [][ (variant = "proactive" /\ iteration_count' = iteration_count + 1)
           => ~approved' ]_vars
    /\ [][ (variant = "proactive" /\ ~approved /\ approved')
           => \/ pc' = pc /\ "ApproveRepair" \in delivered' /\ "approved_by" \in DOMAIN written'
              \/ /\ pc = "plan_repair"
                 /\ ~NeedsApproval(Get(context'["planning_result"],
                                       "overall_confidence_score", 0)) ]_vars
    /\ []((/\ variant = "proactive"
           /\ "execute_repairs" \in Range(calls)
           /\ NeedsApproval(PlanScore))
          => (approved /\ "ApproveRepair" \in delivered))

C35_Witness ==
    /\ variant = "proactive"
    /\ iteration_count = 2
    /\ "repair_result" \in DOMAIN context
    /\ pc = "execute_repairs"
    /\ PlanScore = 95
    /\ "ApproveRepair" \in delivered

\* C36: in a proactive run, once analyze, plan_repair, execute_repairs or
\* report has returned, its result query succeeds in every later state of the
\* run, through later iterations of whatever ending, and answers with the
\* result that activity returned last.
C36_ResultsOutliveCycle ==
    /\ [](variant = "proactive" =>
            /\ ("analyze" \in DOMAIN returned
                  => GetRepairAnalysisResult = << returned["analyze"] >>)
            /\ ("plan_repair" \in DOMAIN returned
                  => GetRepairPlanningResult = << returned["plan_repair"] >>)
            /\ ("execute_repairs" \in DOMAIN returned
                  => GetRepairToolResults = << returned["execute_repairs"] >>)
            /\ ("report" \in DOMAIN returned
                  => GetRepairReport = << returned["report"] >>))
    /\ [][ (variant = "proactive" /\ outcome # "continued-as-new")
           => DOMAIN returned \subseteq DOMAIN returned' ]_vars

C36_Witness ==
    /\ variant = "proactive"
    /\ iteration_count = 3
    /\ trace = <<"NO-REPAIR-NEEDED", "WAITING-FOR-NEXT-CYCLE">>
    /\ GetRepairReport # << >>
    /\ GetRepairPlanningResult = << returned["plan_repair"] >>

\* C37: the confidence-score queries never fail: GetProblemsConfidenceScore
\* answers 0.0 until detect has returned and the detection confidence from
\* then on, GetPlannedRepairConfidenceScore answers 0.0 until plan_repair has
\* returned and the plan's overall confidence from then on.
C37_ScoreQueriesAnswer ==
    /\ GetProblemsConfidenceScore =
         << IF "detect" \in DOMAIN returned
            THEN Get(returned["detect"], "confidence_score", 0) ELSE 0 >>
    /\ GetPlannedRepairConfidenceScore =
         << IF "plan_repair" \in DOMAIN returned
            THEN Get(returned["plan_repair"], "overall_confidence_score", 0) ELSE 0 >>

\* C38: within one approved cycle no planned tool is applied to the record
\* store more than once, whatever attempts of execute_repairs fail part-way
\* and are retried.
C38_ToolsAppliedOnce ==
    \A i, j \in DOMAIN applied : i # j => applied[i] # applied[j]

\* C39: once RequestExit has been handled by a proactive run, run() eventually
\* returns: an inter-cycle wait in progress ends at once and the loop with it,
\* and an exit requested in the middle of a cycle leaves the cycle going (the
\* approval wait included) and ends the run when the cycle has ended.
C39_ExitEventuallyReturns ==
    /\ exit_requested ~> (outcome = "completed")
    /\ [][ (exit_requested /\ pc = "wait_cycle" /\ pc' # pc)
           => (pc' = "done" /\ outcome' = "completed") ]_vars
    /\ [][ (pc = "await_approval" /\ pc' # pc /\ outcome' # "failed")
           => (approved \/ rejected) ]_vars
    /\ [][ (~exit_requested /\ exit_requested') => UNCHANGED <<ctlvars, status, calls>> ]_vars

====
